---------------------------- MODULE Spec2Model ----------------------------
(***************************************************************************)
(* KPI cleaning pipeline, per-shop metric aggregators, leaderboard fusion  *)
(* (src/scripts/analyzes.py) and the chat handler that drives them         *)
(* (src/bot/app.py).                                                       *)
(*                                                                         *)
(* Data representation.                                                    *)
(*   - A cell is a record [k, v, s]: k = "num" (a float, v counts          *)
(*     hundredths, so v = 1250 is 12.5), "nan" (missing), "str" (text, s   *)
(*     is the sequence of its characters), "date" (a parsed timestamp,     *)
(*     v = yyyymmdd) or "nat" (missing timestamp).                         *)
(*   - A table (DataFrame) is [cols, rows]: cols the set of column names,  *)
(*     rows a sequence of functions from cols to cells.  The Shop column   *)
(*     holds shop ids, ordered as the shop names are.                      *)
(***************************************************************************)
EXTENDS Integers, Sequences, FiniteSets

\* ------------------------------------------------------------------ bounds
\* Rows of a raw report handed to the cleaning pipeline, or on disk.
MaxRows == 2
\* Rows of a report whose cleaned form is handed to the aggregators.
MaxAggRows == 3
\* Shops a leaderboard input may rank (one more than the widest window).
NumShops == 6
\* Calls of respond in one run of the chat application.
MaxCalls == 1

\* ------------------------------------------------------------------- cells
NaN == [k |-> "nan", v |-> 0, s |-> <<>>]
NaT == [k |-> "nat", v |-> 0, s |-> <<>>]
Num(n) == [k |-> "num", v |-> n, s |-> <<>>]
Str(t) == [k |-> "str", v |-> 0, s |-> t]
Date(d) == [k |-> "date", v |-> d, s |-> <<>>]

DigitChar == <<"0", "1", "2", "3", "4", "5", "6", "7", "8", "9">>

IsDigit(c) == \E i \in 1..10 : DigitChar[i] = c

DigitVal(c) == (CHOOSE i \in 1..10 : DigitChar[i] = c) - 1

AllDigits(t) == \A i \in 1..Len(t) : IsDigit(t[i])

RECURSIVE NatStr(_)
NatStr(n) == IF n < 10 THEN <<DigitChar[n + 1]>>
             ELSE NatStr(n \div 10) \o <<DigitChar[(n % 10) + 1]>>

RECURSIVE NatVal(_)
NatVal(t) == IF t = <<>> THEN 0
             ELSE 10 * NatVal(SubSeq(t, 1, Len(t) - 1)) + DigitVal(t[Len(t)])

Abs(n) == IF n < 0 THEN -n ELSE n

\* str(float): the shortest repr, "12.0", "12.5", "0.05", "-3.0".
FloatStr(n) ==
  LET a == Abs(n)
      fp == a % 100
      frac == IF fp % 10 = 0 THEN <<DigitChar[(fp \div 10) + 1]>>
              ELSE <<DigitChar[(fp \div 10) + 1], DigitChar[(fp % 10) + 1]>>
  IN (IF n < 0 THEN <<"-">> ELSE <<>>) \o NatStr(a \div 100) \o <<".">> \o frac

\* Series.astype(str) on one cell.
AsType_str(c) ==
  CASE c.k = "str" -> c.s
    [] c.k = "num" -> FloatStr(c.v)
    [] OTHER -> <<"n", "a", "n">>

\* Series.str.replace(r'[...]', '', regex=True) on one text: the characters of
\* the class are removed.
StrReplace(t, class) == SelectSeq(t, LAMBDA c : c \notin class)

\* Position of the decimal point of t, 0 when there is none.
DotAt(t) == IF \E i \in 1..Len(t) : t[i] = "."
            THEN CHOOSE i \in 1..Len(t) : t[i] = "." /\ \A j \in 1..(i - 1) : t[j] # "."
            ELSE 0

\* An unsigned decimal numeral with at most two fractional digits, in hundredths;
\* -1 when t is no such numeral.
UnsignedVal(t) ==
  LET d == DotAt(t)
      ip == IF d = 0 THEN t ELSE SubSeq(t, 1, d - 1)
      fr == IF d = 0 THEN <<>> ELSE SubSeq(t, d + 1, Len(t))
  IN IF ip = <<>> \/ ~AllDigits(ip) \/ ~AllDigits(fr) \/ Len(fr) > 2 THEN -1
     ELSE 100 * NatVal(ip)
          + (CASE Len(fr) = 0 -> 0
               [] Len(fr) = 1 -> 10 * DigitVal(fr[1])
               [] OTHER -> NatVal(fr))

\* pd.to_numeric(errors='coerce') on one text: a numeral parses to its value,
\* anything else (also '' and 'nan') becomes NaN.
ToNumeric(t) ==
  LET neg == t # <<>> /\ t[1] = "-"
      body == IF neg THEN SubSeq(t, 2, Len(t)) ELSE t
      u == UnsignedVal(body)
  IN IF u < 0 THEN NaN ELSE Num(IF neg THEN -u ELSE u)

\* A date text yyyy-mm-dd with a month 1..12 and a day 1..31.
IsDateText(t) ==
  /\ Len(t) = 10
  /\ t[5] = "-" /\ t[8] = "-"
  /\ AllDigits(SubSeq(t, 1, 4)) /\ AllDigits(SubSeq(t, 6, 7)) /\ AllDigits(SubSeq(t, 9, 10))
  /\ NatVal(SubSeq(t, 6, 7)) \in 1..12
  /\ NatVal(SubSeq(t, 9, 10)) \in 1..31

\* pd.to_datetime(errors='coerce') on one cell: a timestamp stays, a date text
\* parses, everything else becomes NaT.
ToDatetime(c) ==
  CASE c.k = "date" -> c
    [] c.k = "str" /\ IsDateText(c.s) ->
         Date(10000 * NatVal(SubSeq(c.s, 1, 4)) + 100 * NatVal(SubSeq(c.s, 6, 7))
              + NatVal(SubSeq(c.s, 9, 10)))
    [] OTHER -> NaT

\* Series.notna() on one cell.
NotNa(c) == c.k \notin {"nan", "nat"}

\* Python's c != 0 on one cell: only a number equal to zero is equal to 0; NaN,
\* text (also "0" and "$0") and timestamps differ from it.
NeZero(c) == ~(c.k = "num" /\ c.v = 0)

\* Python's c != '' on one cell.
NeEmptyStr(c) == ~(c.k = "str" /\ c.s = <<>>)


\* ------------------------------------------------------------------ tables
Required == {"Shop", "WeekEndingCY", "Sales / Day", "CPD - PY", "Customers Repeat % - CY"}

columns_to_drop == {"High.Mileage.Opportunity...CY", "Emission.Tickets...CY",
                    "Emission.Gross.ARO...CY", "Emissions.Penetration..",
                    "Emissions.with.Big.5.....CY"}

Table(cols, rows) == [cols |-> cols, rows |-> rows]

\* pd.DataFrame(): no columns, no rows.
EmptyFrame == Table({}, <<>>)

\* DataFrame.empty: an axis of length 0.
IsEmpty(df) == df.cols = {} \/ df.rows = <<>>

\* df[col] = ...: the frame with column col rewritten, cells[i] in row i.
SetColumn(df, col, cells) ==
  Table(df.cols, [i \in 1..Len(df.rows) |-> [df.rows[i] EXCEPT ![col] = cells[i]]])

\* df.drop(columns=[c for c in drop if c in df.columns]).
DropColumns(df, drop) ==
  LET keep == df.cols \ drop
  IN Table(keep, [i \in 1..Len(df.rows) |-> [c \in keep |-> df.rows[i][c]]])

\* Line 16: the week-ending column is parsed in the frame that was passed in.
ParseWeekEnding(df) ==
  SetColumn(df, "WeekEndingCY",
            [i \in 1..Len(df.rows) |-> ToDatetime(df.rows[i]["WeekEndingCY"])])

\* Lines 19-21: rows whose Sales / Day is NaN, 0 or '' are dropped, one mask
\* after the other.
SalesFilter(df) ==
  LET d19 == SelectSeq(df.rows, LAMBDA r : NotNa(r["Sales / Day"]))
      d20 == SelectSeq(d19, LAMBDA r : NeZero(r["Sales / Day"]))
      d21 == SelectSeq(d20, LAMBDA r : NeEmptyStr(r["Sales / Day"]))
  IN Table(df.cols, d21)

\* Lines 24-25: currency signs, commas and blanks removed, then to_numeric.
CleanSales(c) == ToNumeric(StrReplace(AsType_str(c), {"$", ",", " "}))

\* Line 28: (CPD - PY != 0) & (CPD - PY != 0) & (Customers Repeat % - CY != 0).
CpdRepeatFilter(df) ==
  Table(df.cols, SelectSeq(df.rows, LAMBDA r : /\ NeZero(r["CPD - PY"])
                                               /\ NeZero(r["CPD - PY"])
                                               /\ NeZero(r["Customers Repeat % - CY"])))

\* Lines 40-41: blanks, commas and percent signs removed, then to_numeric.
CleanYoY(c) == ToNumeric(StrReplace(AsType_str(c), {" ", ",", "%"}))

\* clean_and_process_kpi(df): [arg |-> the frame the caller passed, as the call
\* leaves it, ret |-> the frame returned].  Boolean indexing (line 19) copies, so
\* only line 16 writes to the caller's frame.
clean_and_process_kpi(df) ==
  LET d16 == ParseWeekEnding(df)
      d21 == SalesFilter(d16)
      d25 == SetColumn(d21, "Sales / Day",
                       [i \in 1..Len(d21.rows) |-> CleanSales(d21.rows[i]["Sales / Day"])])
      d28 == CpdRepeatFilter(d25)
      d36 == DropColumns(d28, columns_to_drop)
      d41 == IF "Net Sales - YoY %" \in d36.cols
             THEN SetColumn(d36, "Net Sales - YoY %",
                            [i \in 1..Len(d36.rows) |->
                               CleanYoY(d36.rows[i]["Net Sales - YoY %"])])
             ELSE d36
  IN [arg |-> d16, ret |-> d41]

\* ------------------------------------------------------------- aggregators
Min(a, b) == IF a < b THEN a ELSE b

RECURSIVE SumSeq(_)
SumSeq(t) == IF t = <<>> THEN 0 ELSE t[1] + SumSeq(Tail(t))

\* The elements of a finite set of integers, ascending.
Ascending(S) ==
  [n \in 1..Cardinality(S) |-> CHOOSE x \in S : Cardinality({y \in S : y < x}) = n - 1]

\* The distinct shops of a table.
ShopsOf(df) == {df.rows[i]["Shop"] : i \in 1..Len(df.rows)}

\* The numbers of column col in the rows of shop s (mean skips NaN).
GroupValues(df, col, s) ==
  LET rows == SelectSeq(df.rows, LAMBDA r : r["Shop"] = s /\ r[col].k = "num")
  IN [i \in 1..Len(rows) |-> rows[i][col].v]

\* round(total / count, 2) on hundredths: to the nearest hundredth, a half to
\* the even neighbour.
RoundMean(total, count) ==
  LET q == total \div count
      r == total % count
  IN IF 2 * r < count THEN q
     ELSE IF 2 * r > count THEN q + 1
     ELSE IF q % 2 = 0 THEN q ELSE q + 1

\* groupby('Shop')[col].mean().round(2) for one shop: NaN when the shop has no
\* number in the column.
GroupMean(df, col, s) ==
  LET vals == GroupValues(df, col, s)
  IN IF vals = <<>> THEN NaN ELSE Num(RoundMean(SumSeq(vals), Len(vals)))

\* sort_values(by=col, ascending=...): row i comes before row j.  NaN is placed
\* last in both directions; equal values keep their order (the sort of a frame
\* this short is an insertion sort).
ComesBeforeNoDirection(rows, col, ascending, i, j) ==
  LET a == rows[i][col]
      b == rows[j][col]
  IN IF a.k = "nan" \/ b.k = "nan"
     THEN (a.k # "nan" /\ b.k = "nan") \/ (a.k = b.k /\ i < j)
     ELSE a.v < b.v \/ (a.v = b.v /\ i < j)

ComesBefore(rows, col, ascending, i, j) ==
  LET a == rows[i][col]
      b == rows[j][col]
  IN IF a.k = "nan" \/ b.k = "nan"
     THEN (a.k # "nan" /\ b.k = "nan") \/ (a.k = b.k /\ i < j)
     ELSE IF a.v = b.v THEN i < j
     ELSE IF ascending THEN a.v < b.v ELSE a.v > b.v

SortValues(df, col, ascending) ==
  LET n == Len(df.rows)
      rank(i) == Cardinality({j \in 1..n : ComesBefore(df.rows, col, ascending, j, i)})
  IN Table(df.cols, [p \in 1..n |-> df.rows[CHOOSE i \in 1..n : rank(i) = p - 1]])

\* groupby('Shop')[col].mean().round(2).reset_index().rename(columns={col: label})
\* : one row per shop, shops ascending.
Grouped(df, col, label) ==
  LET shops == Ascending(ShopsOf(df))
  IN Table({"Shop", label},
           [i \in 1..Len(shops) |->
              [c \in {"Shop", label} |->
                 IF c = "Shop" THEN shops[i] ELSE GroupMean(df, col, shops[i])]])

analyze_highest_revenue(df) ==
  SortValues(Grouped(df, "Sales / Day", "Highest Sales"), "Highest Sales", FALSE)

analyze_lowest_baytime(df) ==
  IF "BayTime" \notin df.cols THEN EmptyFrame
  ELSE SortValues(Grouped(df, "BayTime", "Lowest BayTime"), "Lowest BayTime", TRUE)

analyze_highest_cpd(df) ==
  IF "CPD" \notin df.cols THEN EmptyFrame
  ELSE SortValues(Grouped(df, "CPD", "Highest Number of CPD"),
                  "Highest Number of CPD", FALSE)

\* Line 105: the value as text followed by '%'.
GrowthLabel(c) == Str(AsType_str(c) \o <<"%">>)

analyze_highest_growth(df) ==
  IF "Net Sales - YoY %" \notin df.cols THEN EmptyFrame
  ELSE LET g == SortValues(Grouped(df, "Net Sales - YoY %", "Highest Yearly Sales Growth"),
                           "Highest Yearly Sales Growth", FALSE)
       IN Table({"Shop", "Growth.Label"},
                [i \in 1..Len(g.rows) |->
                   [c \in {"Shop", "Growth.Label"} |->
                      IF c = "Shop" THEN g.rows[i]["Shop"]
                      ELSE GrowthLabel(g.rows[i]["Highest Yearly Sales Growth"])]])

\* ------------------------------------------------------------- leaderboard
\* The three windows of build_leaderboard (lines 119, 126, 133).
Top1Window == 1
Top3Window == 3
Top5Window == 5

\* What a call leaves: the value returned, or the exception it raised.
Returned(x) == [raised |-> "", value |-> x]
Raised(e) == [raised |-> e, value |-> <<>>]

\* count_top(df_metric, top_n): head(top_n).reset_index()[['Shop']] with
\* Appearance = 1; selecting 'Shop' from a frame without that column raises
\* KeyError.
count_top_exclusive(df_metric, top_n) ==
  IF "Shop" \notin df_metric.cols THEN Raised("KeyError")
  ELSE LET first == IF top_n = 1 THEN 1 ELSE top_n - 1
           head == SubSeq(df_metric.rows, first, Min(top_n, Len(df_metric.rows)))
       IN Returned([i \in 1..Len(head) |-> head[i]["Shop"]])

count_top(df_metric, top_n) ==
  IF "Shop" \notin df_metric.cols THEN Raised("KeyError")
  ELSE LET head == SubSeq(df_metric.rows, 1, Min(top_n, Len(df_metric.rows)))
       IN Returned([i \in 1..Len(head) |-> head[i]["Shop"]])

\* pd.concat of the four count_top results of one window: the listed shops, one
\* entry per listing.
Pool(metrics, top_n) ==
  LET parts == [m \in 1..4 |-> count_top(metrics[m], top_n)]
  IN IF \E m \in 1..4 : parts[m].raised # "" THEN Raised("KeyError")
     ELSE Returned(parts[1].value \o parts[2].value \o parts[3].value \o parts[4].value)

\* groupby('Shop').sum() of a pool, read at one shop: its number of listings.
Appearances(pool, s) == Len(SelectSeq(pool, LAMBDA x : x = s))

PoolShops(pool) == {pool[i] : i \in 1..Len(pool)}

\* Lines 140-143: the three grouped pools outer-joined on Shop (the join orders
\* the index), missing counts filled with 0.
JoinedInner(p1, p3, p5) ==
  LET shops == Ascending(PoolShops(p1) \cap PoolShops(p3) \cap PoolShops(p5))
  IN [i \in 1..Len(shops) |->
        [Shop |-> shops[i], Top1 |-> Appearances(p1, shops[i]),
         Top3 |-> Appearances(p3, shops[i]), Top5 |-> Appearances(p5, shops[i])]]

Joined(p1, p3, p5) ==
  LET shops == Ascending(PoolShops(p1) \cup PoolShops(p3) \cup PoolShops(p5))
  IN [i \in 1..Len(shops) |->
        [Shop |-> shops[i], Top1 |-> Appearances(p1, shops[i]),
         Top3 |-> Appearances(p3, shops[i]), Top5 |-> Appearances(p5, shops[i])]]

\* Line 144: row a sorts strictly before row b by (Top1, Top3, Top5), each
\* descending.
HigherTop1Only(a, b) == a.Top1 > b.Top1

Higher(a, b) ==
  \/ a.Top1 > b.Top1
  \/ a.Top1 = b.Top1 /\ a.Top3 > b.Top3
  \/ a.Top1 = b.Top1 /\ a.Top3 = b.Top3 /\ a.Top5 > b.Top5

\* sort_values(by=['Top1', 'Top3', 'Top5'], ascending=[False, False, False]): a
\* multi-key sort is a lexsort, which keeps equal rows in their order.
SortBoard(rows) ==
  LET n == Len(rows)
      before(i, j) == Higher(rows[i], rows[j])
                      \/ (~Higher(rows[j], rows[i]) /\ i < j)
      rank(i) == Cardinality({j \in 1..n : before(j, i)})
  IN [p \in 1..n |-> rows[CHOOSE i \in 1..n : rank(i) = p - 1]]

build_leaderboard(highest_revenue, lowest_baytime, highest_cpd, highest_growth) ==
  LET metrics == <<highest_revenue, lowest_baytime, highest_cpd, highest_growth>>
      top_1 == Pool(metrics, Top1Window)
      top_3 == Pool(metrics, Top3Window)
      top_5 == Pool(metrics, Top5Window)
  IN IF top_1.raised # "" \/ top_3.raised # "" \/ top_5.raised # ""
     THEN Raised("KeyError")
     ELSE Returned(SortBoard(Joined(top_1.value, top_3.value, top_5.value)))

\* ---------------------------------------------------------- chat handler
DATA_FILENAME == [stem |-> "KPI_Report", ext |-> ".xlsx"]

\* str.lower() on a file extension.
Lower(ext) == CASE ext = ".CSV" -> ".csv"
                [] ext = ".XLSX" -> ".xlsx"
                [] OTHER -> ext

\* The file at the data path: absent, unreadable, not parseable, or holding a
\* table.
FileMissing == [state |-> "missing", df |-> EmptyFrame]
FileUnreadable == [state |-> "unreadable", df |-> EmptyFrame]
FileMalformed == [state |-> "malformed", df |-> EmptyFrame]
FileWith(df) == [state |-> "ok", df |-> df]

\* Python's None, and a frame, as results of load_data.
None == [none |-> TRUE, df |-> EmptyFrame]
Frame(df) == [none |-> FALSE, df |-> df]

\* pd.read_csv / pd.read_excel: the table of a good file, an exception otherwise.
ReadFile(file) == IF file.state = "ok" THEN Returned(file.df) ELSE Raised("ReadError")

\* load_data(filename): every exception of the try block is caught and None is
\* returned.
load_data_empty_on_error(filename, file) ==
  LET tried == IF Lower(filename.ext) = ".csv" THEN ReadFile(file)
               ELSE IF Lower(filename.ext) \in {".xlsx", ".xls"} THEN ReadFile(file)
               ELSE Raised("ValueError")
  IN IF tried.raised # "" THEN Frame(EmptyFrame) ELSE Frame(tried.value)

load_data(filename, file) ==
  LET tried == IF Lower(filename.ext) = ".csv" THEN ReadFile(file)
               ELSE IF Lower(filename.ext) \in {".xlsx", ".xls"} THEN ReadFile(file)
               ELSE Raised("ValueError")
  IN IF tried.raised # "" THEN None ELSE Frame(tried.value)

\* The phrase lists of respond, in the order of its if/elif chain.  A message is
\* modelled by the set of lists of which it contains a phrase (after lower() and
\* the strips of line 60).
Topics == {"rows", "revenue", "baytime", "cpd", "growth", "leaderboard"}

\* A transcript entry's content: the user's text or the reply.
Text(topics) == [kind |-> "text", shop |-> 0, cell |-> NaN, n |-> 0, topics |-> topics]
Reply(kind, shop, cell, n) == [kind |-> kind, shop |-> shop, cell |-> cell, n |-> n, topics |-> {}]

Entry(role, content) == [role |-> role, content |-> content]

\* The top row of a ranking: iloc[0] raises IndexError on a frame without rows.
TopRow(kind, ranking, label) ==
  IF ranking.rows = <<>> THEN Raised("IndexError")
  ELSE Returned(Reply(kind, ranking.rows[1]["Shop"], ranking.rows[1][label], 0))

\* The value of the one-element set S.
Only(S) == CHOOSE x \in S : TRUE

\* Lines 131-176: the reply for the cleaned frame df, with the steps executed.
\* The if/elif chain takes the first list of which the message holds a phrase.
AnswerCleaned(topics, df) ==
  LET ran(steps, r) == [steps |-> {"clean"} \cup steps, out |-> r]
  IN IF "rows" \in topics
     THEN ran({}, Returned(Reply("rows", 0, NaN, Min(5, Len(df.rows)))))
     ELSE IF "revenue" \in topics
     THEN ran({"revenue"},
              TopRow("revenue", analyze_highest_revenue(df), "Highest Sales"))
     ELSE IF "baytime" \in topics
     THEN LET lowest_baytime == analyze_lowest_baytime(df)
          IN ran({"baytime"},
                 IF ~IsEmpty(lowest_baytime)
                 THEN TopRow("baytime", lowest_baytime, "Lowest BayTime")
                 ELSE Returned(Reply("no baytime", 0, NaN, 0)))
     ELSE IF "cpd" \in topics
     THEN LET highest_cpd == analyze_highest_cpd(df)
          IN ran({"cpd"},
                 IF ~IsEmpty(highest_cpd)
                 THEN TopRow("cpd", highest_cpd, "Highest Number of CPD")
                 ELSE Returned(Reply("no cpd", 0, NaN, 0)))
     ELSE IF "growth" \in topics
     THEN LET highest_growth == analyze_highest_growth(df)
          IN ran({"growth"},
                 IF ~IsEmpty(highest_growth)
                 THEN TopRow("growth", highest_growth, "Growth.Label")
                 ELSE Returned(Reply("no growth", 0, NaN, 0)))
     ELSE IF "leaderboard" \in topics
     THEN LET leaderboard == build_leaderboard(analyze_highest_revenue(df),
                                               analyze_lowest_baytime(df),
                                               analyze_highest_cpd(df),
                                               analyze_highest_growth(df))
          IN ran({"revenue", "baytime", "cpd", "growth", "leaderboard"},
                 IF leaderboard.raised # "" THEN Raised(leaderboard.raised)
                 ELSE Returned(Reply("leaderboard", 0, NaN,
                                     Min(5, Len(leaderboard.value)))))
     ELSE ran({}, Returned(Reply("loaded", 0, NaN, Len(df.rows))))

\* Lines 129-176: df = clean_and_process_kpi(df), then the reply.
Answer(topics, loaded) ==
  Only({AnswerCleaned(topics, df) : df \in {clean_and_process_kpi(loaded).ret}})

\* Lines 126-181 for what load_data returned: [raised, reply, steps, history,
\* saved]; history is the list the two entries were appended to, saved whether
\* the transcript was written.  An exception leaves the list as it was.
Respond(topics, history, df) ==
  LET a == IF df.none
           THEN [steps |-> {}, out |-> Returned(Reply("failed to load", 0, NaN, 0))]
           ELSE Answer(topics, df.df)
  IN IF a.out.raised # ""
     THEN [raised |-> a.out.raised, reply |-> Reply("", 0, NaN, 0),
           steps |-> {"load"} \cup a.steps, history |-> history, saved |-> FALSE]
     ELSE [raised |-> "", reply |-> a.out.value, steps |-> {"load"} \cup a.steps,
           history |-> history \o <<Entry("user", Text(topics)),
                                     Entry("assistant", a.out.value)>>,
           saved |-> TRUE]

\* respond(user_message, chat_history): a fresh list replaces an argument that
\* is None or no list (lines 57-58), the data is loaded (line 61), and the rest
\* follows.
respond(topics, given_list, chat_history, file) ==
  Only({Respond(topics, IF given_list THEN chat_history ELSE <<>>, df) :
          df \in {load_data(DATA_FILENAME, file)}})

\* ------------------------------------------------------------ input sets
Row(shop, week, sales, cpdpy, repeat) ==
  [c \in Required |->
     CASE c = "Shop" -> shop
       [] c = "WeekEndingCY" -> week
       [] c = "Sales / Day" -> sales
       [] c = "CPD - PY" -> cpdpy
       [] OTHER -> repeat]

\* r extended by the columns of extra.
With(r, extra) ==
  [c \in (DOMAIN r) \cup (DOMAIN extra) |-> IF c \in DOMAIN extra THEN extra[c] ELSE r[c]]

WeekText == Str(<<"2", "0", "2", "4", "-", "0", "1", "-", "0", "7">>)
WeekBad == Str(<<"n", "/", "a">>)

\* Raw cells of a report: numbers, zero, missing, empty text, currency text,
\* text that is no number.
RawSales == {Num(10000), Num(0), NaN, Str(<<>>), Str(<<"$", "0">>),
             Str(<<"$", "1", ",", "2", "0", "0">>), Str(<<"a", "b", "c">>)}
RawCpdPy == {Num(500), Num(0), NaN}
RawRepeat == {Num(2500), Num(0), NaN}
RawYoY == {Str(<<"1", "2", ".", "5", " ", "%">>), NaN}

RawRows ==
  {Row(1, w, x, y, z) : w \in {WeekText, WeekBad}, x \in RawSales,
                        y \in RawCpdPy, z \in RawRepeat}

\* The same rows in a report that also has the growth column and one of the
\* columns the pipeline drops.
RawRowsWide ==
  {With(r, [c \in {"Net Sales - YoY %", "Emission.Tickets...CY"} |->
              IF c = "Net Sales - YoY %" THEN g ELSE Num(100)]) :
     r \in RawRows, g \in RawYoY}

\* Reports for the aggregators: valid required fields and any of the three
\* optional columns.  An aggregator reads Shop and one column, so a row is a shop
\* with one of three value profiles.
Optional == {"BayTime", "CPD", "Net Sales - YoY %"}

Profiles ==
  {[sales |-> Num(1), bay |-> Num(1), cpd |-> Num(3),
    yoy |-> Str(<<"1", "2", ".", "5", " ", "%">>)],
   [sales |-> Str(<<"$", "0", ".", "0", "2">>), bay |-> Num(2), cpd |-> NaN,
    yoy |-> Num(-300)],
   [sales |-> Num(400), bay |-> NaN, cpd |-> Num(4), yoy |-> NaN]}

AggRows(opt) ==
  {[c \in Required \cup opt |->
      CASE c = "Shop" -> s
        [] c = "WeekEndingCY" -> WeekText
        [] c = "Sales / Day" -> p.sales
        [] c = "CPD - PY" -> Num(500)
        [] c = "Customers Repeat % - CY" -> Num(2500)
        [] c = "BayTime" -> p.bay
        [] c = "CPD" -> p.cpd
        [] OTHER -> p.yoy] :
     s \in 1..3, p \in Profiles}

\* Rankings handed to build_leaderboard directly: the first n shops of one of
\* three orders of the shops 1..NumShops, or the empty frame of an unavailable
\* metric.
Orders ==
  {[i \in 1..NumShops |-> i],
   [i \in 1..NumShops |-> NumShops + 1 - i],
   [i \in 1..NumShops |-> ((i + 1) % NumShops) + 1]}

Ranking(label, order, n) ==
  Table({"Shop", label},
        [i \in 1..n |-> [c \in {"Shop", label} |-> IF c = "Shop" THEN order[i] ELSE NaN]])

Rankings(label) == {Ranking(label, o, n) : o \in Orders, n \in 0..NumShops}

\* Reports on disk for the chat handler: a row the pipeline keeps and a row it
\* drops, with none or all of the optional columns.
BotRows(opt) ==
  {[c \in Required \cup opt |->
      CASE c = "Shop" -> x[1]
        [] c = "WeekEndingCY" -> WeekText
        [] c = "Sales / Day" -> x[2]
        [] c = "CPD - PY" -> Num(500)
        [] c = "Customers Repeat % - CY" -> Num(2500)
        [] c = "BayTime" -> Num(4500)
        [] c = "CPD" -> Num(3000)
        [] OTHER -> Str(<<"1", "2", ".", "5", " ", "%">>)] :
     x \in {<<1, Str(<<"$", "1", ",", "2", "0", "0">>)>>, <<2, Num(0)>>}}

\* What the user may type: a message holding a phrase of no list, of one list,
\* or of two ("top sales leaderboard").
Messages == {T \in SUBSET Topics : Cardinality(T) <= 1} \cup {{"revenue", "leaderboard"}}

Filenames == {[stem |-> "KPI_Report", ext |-> e] : e \in {".xlsx", ".xls", ".csv", ".CSV", ".txt"}}

\* ----------------------------------------------------------- state machine
VARIABLES
  given,         \* the raw frame as the caller built it (kept for comparison)
  df,            \* the caller's raw frame, the object passed to clean_and_process_kpi
  cleaned,       \* the frame clean_and_process_kpi returned
  recleaned,     \* the frame a second run on cleaned returned
  highest_revenue, lowest_baytime, highest_cpd, highest_growth,  \* the rankings
  leaderboard,   \* what build_leaderboard left
  done,          \* the calls made so far
  disk,          \* the file at the data path
  chat_history,  \* the transcript list of the chat session
  log_file,      \* logs/chat_history.json: [exists, content]
  last           \* the last call of respond or load_data, and what it left

vars == <<given, df, cleaned, recleaned, highest_revenue, lowest_baytime, highest_cpd,
          highest_growth, leaderboard, done, disk, chat_history, log_file, last>>

pipeVars == <<given, df, cleaned, recleaned, highest_revenue, lowest_baytime,
              highest_cpd, highest_growth, leaderboard, done>>

botVars == <<disk, chat_history, log_file, last>>

\* The record of a call: of respond (op = "respond": its arguments, the transcript
\* before it and what it left) or of load_data (op = "load_data": the file name
\* and the result).
Call(op, topics, given_list, before, r, filename, result) ==
  [op |-> op, topics |-> topics, given_list |-> given_list, before |-> before,
   raised |-> r.raised, reply |-> r.reply, steps |-> r.steps, history |-> r.history,
   saved |-> r.saved, filename |-> filename, result |-> result]

NoRespond == [raised |-> "", reply |-> Reply("", 0, NaN, 0), steps |-> {},
              history |-> <<>>, saved |-> FALSE]

NoCall == Call("", {}, FALSE, <<>>, NoRespond, DATA_FILENAME, None)

PipeIdle ==
  /\ given = EmptyFrame /\ df = EmptyFrame /\ cleaned = EmptyFrame
  /\ recleaned = EmptyFrame
  /\ highest_revenue = EmptyFrame /\ lowest_baytime = EmptyFrame
  /\ highest_cpd = EmptyFrame /\ highest_growth = EmptyFrame
  /\ leaderboard = Returned(<<>>)
  /\ done = {}

BotIdle ==
  /\ disk = FileMissing
  /\ chat_history = <<>>
  /\ log_file = [exists |-> FALSE, content |-> <<>>]
  /\ last = NoCall

\* A caller holds a raw report and has called nothing yet.
Fresh ==
  /\ df = given
  /\ cleaned = EmptyFrame /\ recleaned = EmptyFrame
  /\ highest_revenue = EmptyFrame /\ lowest_baytime = EmptyFrame
  /\ highest_cpd = EmptyFrame /\ highest_growth = EmptyFrame
  /\ leaderboard = Returned(<<>>)
  /\ done = {}
  /\ BotIdle

InitClean ==
  /\ \E n \in 0..MaxRows :
       \/ \E rows \in [1..n -> RawRows] : given = Table(Required, rows)
       \/ \E rows \in [1..n -> RawRowsWide] :
            given = Table(Required \cup {"Net Sales - YoY %", "Emission.Tickets...CY"}, rows)
  /\ Fresh

InitAgg ==
  /\ \E opt \in SUBSET Optional : \E n \in 0..MaxAggRows : \E rows \in [1..n -> AggRows(opt)] :
       given = Table(Required \cup opt, rows)
  /\ Fresh

\* A caller holds four rankings.
InitBoard ==
  /\ given = EmptyFrame /\ df = EmptyFrame /\ cleaned = EmptyFrame
  /\ recleaned = EmptyFrame
  /\ highest_revenue \in {Ranking("Highest Sales", [i \in 1..NumShops |-> i], n) :
                            n \in 0..NumShops}
  /\ lowest_baytime \in Rankings("Lowest BayTime") \cup {EmptyFrame}
  /\ highest_cpd \in Rankings("Highest Number of CPD") \cup {EmptyFrame}
  /\ highest_growth \in Rankings("Growth.Label") \cup {EmptyFrame}
  /\ leaderboard = Returned(<<>>)
  /\ done = {"aggregate"}
  /\ BotIdle

\* df = clean_and_process_kpi(df) by a caller that keeps its raw frame.
CleanCall ==
  /\ "clean" \notin done
  /\ LET r == clean_and_process_kpi(df)
     IN /\ df' = r.arg
        /\ cleaned' = r.ret
  /\ done' = done \cup {"clean"}
  /\ UNCHANGED <<given, recleaned, highest_revenue, lowest_baytime, highest_cpd,
                 highest_growth, leaderboard>>
  /\ UNCHANGED botVars

\* clean_and_process_kpi run again, on the frame it returned.
ReCleanCall ==
  /\ "clean" \in done
  /\ "reclean" \notin done
  /\ LET r == clean_and_process_kpi(cleaned)
     IN /\ cleaned' = r.arg
        /\ recleaned' = r.ret
  /\ done' = done \cup {"reclean"}
  /\ UNCHANGED <<given, df, highest_revenue, lowest_baytime, highest_cpd,
                 highest_growth, leaderboard>>
  /\ UNCHANGED botVars

\* The four aggregators on the cleaned frame (lines 153-156).
AggregateCall ==
  /\ "clean" \in done
  /\ "aggregate" \notin done
  /\ highest_revenue' = analyze_highest_revenue(cleaned)
  /\ lowest_baytime' = analyze_lowest_baytime(cleaned)
  /\ highest_cpd' = analyze_highest_cpd(cleaned)
  /\ highest_growth' = analyze_highest_growth(cleaned)
  /\ done' = done \cup {"aggregate"}
  /\ UNCHANGED <<given, df, cleaned, recleaned, leaderboard>>
  /\ UNCHANGED botVars

\* build_leaderboard on the four rankings (line 170).
BuildCall ==
  /\ "aggregate" \in done
  /\ "build" \notin done
  /\ leaderboard' = build_leaderboard(highest_revenue, lowest_baytime, highest_cpd,
                                      highest_growth)
  /\ done' = done \cup {"build"}
  /\ UNCHANGED <<given, df, cleaned, recleaned, highest_revenue, lowest_baytime,
                 highest_cpd, highest_growth>>
  /\ UNCHANGED botVars

NextClean == CleanCall \/ ReCleanCall

NextAgg == CleanCall \/ AggregateCall \/ BuildCall

NextBoard == BuildCall

SpecClean == InitClean /\ [][NextClean]_vars

SpecAgg == InitAgg /\ [][NextAgg]_vars

SpecBoard == InitBoard /\ [][NextBoard]_vars

\* The chat application starts: a file, or none, at the data path, an empty
\* transcript, no log file.
InitBot ==
  /\ PipeIdle
  /\ \/ disk \in {FileMissing, FileUnreadable, FileMalformed}
     \/ \E opt \in {{}, Optional} : \E n \in 0..MaxRows :
          \E rows \in [1..n -> BotRows(opt)] : disk = FileWith(Table(Required \cup opt, rows))
  /\ chat_history = <<>>
  /\ log_file = [exists |-> FALSE, content |-> <<>>]
  /\ last = NoCall

\* One call of respond(user_message, chat_history).  The caller passes its
\* transcript list, or None; the appends of lines 178-179 are made in place, so
\* a list that was passed is the caller's list afterwards.
RespondCall ==
  /\ Len(chat_history) < 2 * MaxCalls
  /\ \E topics \in Messages : \E given_list \in BOOLEAN :
       \E r \in {respond(topics, given_list, chat_history, disk)} :
          /\ chat_history' = IF given_list THEN r.history ELSE chat_history
          /\ log_file' = IF r.saved THEN [exists |-> TRUE, content |-> r.history]
                         ELSE log_file
          /\ last' = Call("respond", topics, given_list,
                          IF given_list THEN chat_history ELSE <<>>, r,
                          DATA_FILENAME, load_data(DATA_FILENAME, disk))
  /\ UNCHANGED disk
  /\ UNCHANGED pipeVars

\* One call of load_data(filename).
LoadCall ==
  /\ \E filename \in Filenames :
       last' = Call("load_data", {}, FALSE, <<>>, NoRespond, filename,
                    load_data(filename, disk))
  /\ UNCHANGED <<disk, chat_history, log_file>>
  /\ UNCHANGED pipeVars

NextBot == RespondCall \/ LoadCall

SpecBot == InitBot /\ [][NextBot]_vars

\* ------------------------------------------------------------------ claims
Cleaned == "clean" \in done

ValidNumber(c) == c.k = "num" /\ c.v # 0

\* C1: every record of the table clean_and_process_kpi returns has a non-null,
\* non-zero 'Sales / Day', 'CPD - PY' and 'Customers Repeat % - CY'.
C1_CleanedFieldsValid ==
  Cleaned =>
    \A i \in 1..Len(cleaned.rows) :
      /\ ValidNumber(cleaned.rows[i]["Sales / Day"])
      /\ ValidNumber(cleaned.rows[i]["CPD - PY"])
      /\ ValidNumber(cleaned.rows[i]["Customers Repeat % - CY"])

\* C2: clean_and_process_kpi is idempotent: run on the table it returned, it
\* returns that table again, with the same records and the same values.
C2_Idempotent == "reclean" \in done => recleaned = cleaned

\* C7: clean_and_process_kpi leaves the table passed to it unchanged: the caller's
\* raw frame has the same records and values, the week-ending column included,
\* before and after the call.
C7_InputUnchanged == Cleaned => df = given

\* What a ranking carries for its row i: the number in column label, or, for the
\* growth ranking, the number its text label stands for.
Carried(rk, label, i) ==
  LET c == rk.rows[i][label]
  IN IF c.k = "str" THEN ToNumeric(StrReplace(c.s, {"%"})) ELSE c

\* The rows of shop s in the cleaned table that hold a number in column col.
NumberRows(col, s) ==
  {i \in 1..Len(cleaned.rows) :
     cleaned.rows[i]["Shop"] = s /\ cleaned.rows[i][col].k = "num"}

RECURSIVE Total(_, _)
Total(col, I) ==
  IF I = {} THEN 0
  ELSE LET i == CHOOSE x \in I : TRUE
       IN cleaned.rows[i][col].v + Total(col, I \ {i})

\* c is the mean of column col over shop s: exactly, or to the nearest hundredth.
IsMean(c, col, s, exact) ==
  LET I == NumberRows(col, s)
      n == Cardinality(I)
      t == Total(col, I)
  IN IF n = 0 THEN c.k = "nan"
     ELSE /\ c.k = "num"
          /\ IF exact THEN n * c.v = t ELSE 2 * Abs(n * c.v - t) <= n

\* One row per shop of the cleaned table, each carrying the shop's mean of col,
\* ordered by the value carried, rows without a value last.
RankingOf(rk, col, label, ascending, exact) ==
  LET n == Len(rk.rows)
  IN /\ n = Cardinality(ShopsOf(cleaned))
     /\ {rk.rows[i]["Shop"] : i \in 1..n} = ShopsOf(cleaned)
     /\ \A i \in 1..n : IsMean(Carried(rk, label, i), col, rk.rows[i]["Shop"], exact)
     /\ \A i \in 1..n : \A j \in (i + 1)..n :
          LET a == Carried(rk, label, i)
              b == Carried(rk, label, j)
          IN /\ a.k = "nan" => b.k = "nan"
             /\ a.k = "num" /\ b.k = "num" =>
                  IF ascending THEN a.v <= b.v ELSE a.v >= b.v

AggregatorsRank(exact) ==
  "aggregate" \in done =>
    /\ RankingOf(highest_revenue, "Sales / Day", "Highest Sales", FALSE, exact)
    /\ "BayTime" \in cleaned.cols =>
         RankingOf(lowest_baytime, "BayTime", "Lowest BayTime", TRUE, exact)
    /\ "CPD" \in cleaned.cols =>
         RankingOf(highest_cpd, "CPD", "Highest Number of CPD", FALSE, exact)
    /\ "Net Sales - YoY %" \in cleaned.cols =>
         RankingOf(highest_growth, "Net Sales - YoY %", "Growth.Label", FALSE, exact)

\* C5 as stated: each aggregator returns one row per distinct shop of the cleaned
\* table, carrying that shop's arithmetic mean of the source field, ordered by
\* that value (descending for revenue, CPD and growth, ascending for bay time).
C5_ExactMean == AggregatorsRank(TRUE)

\* C5 as amended: each aggregator returns one row per distinct shop of the
\* cleaned table, carrying that shop's mean of the source field rounded to two
\* decimals (for growth as text with a '%' suffix; no value when the shop has no
\* number in the field), ordered by the rounded value in the metric's direction,
\* rows without a value last.
C5_RoundedMean == AggregatorsRank(FALSE)

\* C5 witness: two shops are ranked on all four metrics, and the mean of one of
\* them is not a whole number of hundredths and was rounded.
C5_Witness ==
  /\ "aggregate" \in done
  /\ Optional \subseteq cleaned.cols
  /\ Len(highest_revenue.rows) = 2
  /\ lowest_baytime.rows[1]["Lowest BayTime"] # lowest_baytime.rows[2]["Lowest BayTime"]
  /\ \E s \in ShopsOf(cleaned) :
       LET I == NumberRows("Sales / Day", s)
       IN Total("Sales / Day", I) % Cardinality(I) # 0

Built == "build" \in done /\ leaderboard.raised = ""

Metrics == <<highest_revenue, lowest_baytime, highest_cpd, highest_growth>>

\* The shops among the first n entries of a ranking.
FirstShops(rk, n) == {rk.rows[i]["Shop"] : i \in 1..Min(n, Len(rk.rows))}

\* The metrics that list shop s among their first n entries.
ListedIn(s, n) == {m \in 1..4 : s \in FirstShops(Metrics[m], n)}

\* The shops of all four rankings, and those within a first-five window.
RankedShops == UNION {FirstShops(Metrics[m], Len(Metrics[m].rows)) : m \in 1..4}

TopFiveShops == UNION {FirstShops(Metrics[m], 5) : m \in 1..4}

BoardRowsOf(s) == {i \in 1..Len(leaderboard.value) : leaderboard.value[i].Shop = s}

\* Shop s has exactly one leaderboard row, with 0 in every tier that did not
\* list it.
OnceWithZeros(s) ==
  /\ Cardinality(BoardRowsOf(s)) = 1
  /\ \A i \in BoardRowsOf(s) :
       /\ ListedIn(s, 1) = {} => leaderboard.value[i].Top1 = 0
       /\ ListedIn(s, 3) = {} => leaderboard.value[i].Top3 = 0
       /\ ListedIn(s, 5) = {} => leaderboard.value[i].Top5 = 0

\* C3 as stated: every shop that appears in any of the four rankings, of any
\* length, appears exactly once in the returned leaderboard, with count 0 in a
\* tier that did not list it.
C3_EveryRankedShop == Built => \A s \in RankedShops : OnceWithZeros(s)

\* C3 as amended: every shop among the first five entries of any of the four
\* rankings appears exactly once in the returned leaderboard, with count 0 in a
\* tier that did not list it; a shop ranked sixth or lower in every ranking has
\* no row.
C3_EveryTopFiveShop ==
  Built =>
    /\ \A s \in TopFiveShops : OnceWithZeros(s)
    /\ \A i \in 1..Len(leaderboard.value) : leaderboard.value[i].Shop \in TopFiveShops

\* C3 witness: a leaderboard was returned for rankings of which one has more than
\* five shops, and a shop of one ranking's first five is unlisted elsewhere and
\* has a row with a zero tier.
C3_Witness ==
  /\ Built
  /\ \E m \in 1..4 : Len(Metrics[m].rows) > 5
  /\ \E s \in TopFiveShops :
       /\ ListedIn(s, 5) # {} /\ ListedIn(s, 5) # 1..4
       /\ ListedIn(s, 1) = {}
       /\ \E i \in BoardRowsOf(s) : leaderboard.value[i].Top1 = 0

\* C4: when a guarded metric is unavailable (its aggregator returned the empty
\* frame), build_leaderboard still completes without error, and the leaderboard
\* counts the remaining metrics only.
C4_UnavailableMetricTolerated ==
  ("build" \in done /\ \E m \in 2..4 : Metrics[m] = EmptyFrame) =>
    /\ leaderboard.raised = ""
    /\ \A i \in 1..Len(leaderboard.value) :
         leaderboard.value[i].Top5 = Cardinality(ListedIn(leaderboard.value[i].Shop, 5))

\* C8: every leaderboard row has Top1 <= Top3 <= Top5, a shop counted in a
\* metric's top-1 window being counted in its top-3 and top-5 windows too; a
\* shop ranked first in all four metrics has Top1 = Top3 = Top5 = 4.
C8_TierMonotone ==
  Built =>
    /\ \A i \in 1..Len(leaderboard.value) :
         LET r == leaderboard.value[i]
         IN /\ r.Top1 <= r.Top3 /\ r.Top3 <= r.Top5
            /\ r.Top1 = Cardinality(ListedIn(r.Shop, 1))
            /\ r.Top3 >= Cardinality(ListedIn(r.Shop, 1))
            /\ r.Top5 >= Cardinality(ListedIn(r.Shop, 3))
    /\ \A s \in RankedShops :
         ListedIn(s, 1) = 1..4 =>
           \E i \in 1..Len(leaderboard.value) :
             leaderboard.value[i] = [Shop |-> s, Top1 |-> 4, Top3 |-> 4, Top5 |-> 4]

\* C8 witness: a returned leaderboard in which one shop is first in all four
\* metrics, and rows exist with Top1 < Top3 and with Top3 < Top5.
C8_Witness ==
  /\ Built
  /\ \E s \in RankedShops : ListedIn(s, 1) = 1..4
  /\ \E i \in 1..Len(leaderboard.value) :
       leaderboard.value[i].Top1 < leaderboard.value[i].Top3
  /\ \E i \in 1..Len(leaderboard.value) :
       leaderboard.value[i].Top3 < leaderboard.value[i].Top5

\* Rows r, s in this order are in descending lexicographic order of
\* (Top1, Top3, Top5).
InOrder(r, s) ==
  \/ r.Top1 > s.Top1
  \/ r.Top1 = s.Top1 /\ r.Top3 > s.Top3
  \/ r.Top1 = s.Top1 /\ r.Top3 = s.Top3 /\ r.Top5 >= s.Top5

\* C9: the returned leaderboard is ordered lexicographically by (Top1, Top3,
\* Top5), each descending: any two consecutive rows are in that order.
C9_LexicographicOrder ==
  Built =>
    \A i \in 1..(Len(leaderboard.value) - 1) :
      InOrder(leaderboard.value[i], leaderboard.value[i + 1])

\* C9 witness: a returned leaderboard with consecutive rows that tie on Top1 and
\* are ordered by Top3, and consecutive rows that tie on Top1 and Top3 and are
\* ordered by Top5.
C9_Witness ==
  /\ Built
  /\ \E i \in 1..(Len(leaderboard.value) - 1) :
       /\ leaderboard.value[i].Top1 = leaderboard.value[i + 1].Top1
       /\ leaderboard.value[i].Top3 > leaderboard.value[i + 1].Top3
  /\ \E i \in 1..(Len(leaderboard.value) - 1) :
       /\ leaderboard.value[i].Top1 = leaderboard.value[i + 1].Top1
       /\ leaderboard.value[i].Top3 = leaderboard.value[i + 1].Top3
       /\ leaderboard.value[i].Top5 > leaderboard.value[i + 1].Top5

LoadFails(filename) ==
  disk.state # "ok" \/ Lower(filename.ext) \notin {".csv", ".xlsx", ".xls"}

\* C6: when the source file is missing, unreadable, malformed or of an
\* unrecognised extension, load_data signals the failure to its caller (None,
\* never a table), and respond then runs no cleaning, aggregation or leaderboard
\* step in that query.
C6_LoadFailureStopsQuery ==
  /\ (last.op # "" /\ LoadFails(last.filename)) => last.result = None
  /\ (last.op = "respond" /\ LoadFails(last.filename)) =>
       /\ last.steps = {"load"}
       /\ last.raised = ""
       /\ last.reply.kind = "failed to load"

\* C6 witness: respond was called while the file could not be loaded, and
\* answered that loading failed.
C6_Witness ==
  /\ last.op = "respond"
  /\ disk.state = "malformed"
  /\ last.topics = {"leaderboard"}
  /\ last.reply.kind = "failed to load"

\* C10: every call of respond completes with a reply, extends the transcript by
\* the user's message and then the assistant's reply, and persists it; the
\* transcript alternates user and assistant entries.
C10_EveryCallReplies ==
  last.op = "respond" =>
    /\ last.raised = ""
    /\ Len(last.history) = Len(last.before) + 2
    /\ SubSeq(last.history, 1, Len(last.before)) = last.before
    /\ last.history[Len(last.before) + 1] = Entry("user", Text(last.topics))
    /\ last.history[Len(last.before) + 2] = Entry("assistant", last.reply)
    /\ log_file = [exists |-> TRUE, content |-> last.history]
    /\ \A i \in 1..Len(last.history) :
         last.history[i].role = IF i % 2 = 1 THEN "user" ELSE "assistant"

=============================================================================
